---------------------------- MODULE Spec2Model ----------------------------
(***************************************************************************)
(* The code-agent workflow of v0-clone (src/src/inngest/functions.js):     *)
(* the durable function codeAgentFunction with its checkpointed steps, the *)
(* message store it reads and writes, and the server action that triggers  *)
(* it.                                                                     *)
(***************************************************************************)
EXTENDS Integers, Sequences, FiniteSets, TLC

(***************************************************************************)
(* Bounds of the model and constants of the program.                       *)
(***************************************************************************)
\* take: 30 of the findMany query
take == 30
\* maxIter: 10 of createNetwork
maxIter == 10
\* step attempts after the first one that the framework grants a failing step
MaxRetries == 1
\* points of a free-tier user per window (FREE_POINTS) and the cost of one
\* generation (GENERATION_COST)
FREE_POINTS == 5
GENERATION_COST == 1
\* points of a pro user per window (PRO_POINTS)
PRO_POINTS == 100
\* exchanges (a USER message and its reply) stored before the first action
MaxHistory == 1
\* messages the store holds before the first action of LoaderSpec
HistoryBase == 28
\* messages stored on top of these in LoaderSpec
MaxTail == 3
\* calls that the rate limiter rejects and still counts, per user
MaxRejected == 1
\* sandboxes created in all, by runs and by restoreFragment
MaxSandboxes == 2

Runs == {1}
Projects == {"p1", "p2"}
\* the id of the project that createProject makes
NewProjects == {"p3"}
Users == {"u1", "u2"}
\* the users whose plan is "pro"
ProUsers == {"u2"}
Paths == {"a", "b"}
Contents == {"v1", "v2"}

(***************************************************************************)
(* File maps: a path maps to its content, or to NoFile when absent.        *)
(***************************************************************************)
NoFile == "-"
FileMaps == [Paths -> Contents \cup {NoFile}]
EmptyFiles == [p \in Paths |-> NoFile]
\* Object.keys(files)
Keys(files) == {p \in Paths : files[p] # NoFile}
\* { ...newer, ...older }
SpreadKeepOlder(older, newer) ==
    [p \in Paths |-> IF older[p] # NoFile THEN older[p] ELSE newer[p]]
\* { ...older, ...newer }
Spread(older, newer) ==
    [p \in Paths |-> IF newer[p] # NoFile THEN newer[p] ELSE older[p]]

Min(a, b) == IF a <= b THEN a ELSE b

(***************************************************************************)
(* Texts are sequences of tokens; the completion marker is one token.      *)
(***************************************************************************)
Marker == "<task_summary>"
PlainText == <<"working">>
MarkerText == <<Marker, "done">>
EmptyText == <<>>
\* String.prototype.includes, on tokens
Includes(text, token) == \E i \in 1..Len(text) : text[i] = token

ErrorContent == <<"Something went wrong. Please try again">>
PromptText == <<"prompt">>

(***************************************************************************)
(* The state.                                                              *)
(***************************************************************************)
VARIABLES
    projects,   \* the Project table: projects[id] is the owner's user id
    messages,   \* the Message table in createdAt order, fragments included
    sandboxes,  \* the sandboxes created so far: sandboxes[id] is the creating run
    disk,       \* disk[id]: the files written to sandbox id through its files API
    pc,         \* per run: where the current invocation of the function stands
    event,      \* per run: event.data.projectId
    memo,       \* per run: the results of the completed steps
    net,        \* per run: the agent network (counter, state.data, pending calls)
    synth,      \* per run: the title and response generators' outputs
    attempts,   \* per run: failed attempts of the step being tried
    points      \* points[u]: the points user u has consumed in the current window

vars == <<projects, messages, sandboxes, disk, pc, event, memo, net, synth, attempts, points>>

NoFragment == [none |-> TRUE]
NoCtx == [none |-> TRUE]
NoOutput == [none |-> TRUE]
NoUrl == [none |-> TRUE]
NoProject == "-"

(***************************************************************************)
(* get-previous-messages: the query and the loop over its rows.            *)
(***************************************************************************)
\* where: { projectId }
SelectedOfAnyType(m, projectId) == m.projectId = projectId
\* where: { projectId, type: { not: "ERROR" } }
Selected(m, projectId) == m.projectId = projectId /\ m.type # "ERROR"

\* orderBy createdAt asc, take
FindMany(db, projectId) ==
    LET rows == SelectSeq(db, LAMBDA m : Selected(m, projectId))
    IN  SubSeq(rows, 1, Min(take, Len(rows)))

HasFragment(m) == m.role = "ASSISTANT" /\ m.fragments # NoFragment

\* latestFiles after the loop has processed rows[1..n]
RECURSIVE MergeFiles(_, _)
MergeFiles(rows, n) ==
    IF n = 0 THEN EmptyFiles
    ELSE IF HasFragment(rows[n])
         THEN Spread(MergeFiles(rows, n - 1), rows[n].fragments.files)
         ELSE MergeFiles(rows, n - 1)

\* the entry pushed for one row; note holds the file names of the bracketed
\* suffix, empty when no suffix is appended
FormatMessage(m) ==
    [type |-> "text",
     role |-> IF m.role = "ASSISTANT" THEN "assistant" ELSE "user",
     content |-> [text |-> m.content,
                  note |-> IF HasFragment(m) THEN Keys(m.fragments.files) ELSE {}]]

LoadContext(db, projectId) ==
    LET rows == FindMany(db, projectId)
    IN  [rows |-> [i \in 1..Len(rows) |-> rows[i].id],
         formattedMessages |-> [i \in 1..Len(rows) |-> FormatMessage(rows[i])],
         latestFiles |-> MergeFiles(rows, Len(rows))]


\* `http://${sandbox.getHost(3000)}` of the sandbox with this id
Url(sandboxId) == [scheme |-> "http", host |-> sandboxId]

(***************************************************************************)
(* The store.                                                              *)
(***************************************************************************)
\* the id of a new row: one that no stored row has
NextId(db) ==
    IF db = <<>> THEN 1
    ELSE 1 + CHOOSE n \in {db[i].id : i \in 1..Len(db)} :
                 \A i \in 1..Len(db) : db[i].id <= n

\* db.message.create; by names the run that issued the insert (0: a user)
Create(db, projectId, role, type, content, fragments, by) ==
    Append(db, [id |-> NextId(db), projectId |-> projectId, role |-> role,
                type |-> type, content |-> content, fragments |-> fragments,
                by |-> by])

\* the rows a run has inserted
WrittenBy(r) == {i \in 1..Len(messages) : messages[i].by = r}

(***************************************************************************)
(* The server actions.  An action that throws changes nothing but, when    *)
(* the rate limiter has rejected the call, the caller's points; what an    *)
(* action throws or returns is given by the operator beside it.            *)
(***************************************************************************)
\* getCurrentUser() returns null
NoUser == "anonymous"
\* no Project row with the id
NoOwner == "-"
ProjectIds == Projects \cup NewProjects
Callers == Users \cup {NoUser}

NoError == "-"
RateLimit == "Rate limit exceeded"
Unauthorized == "Unauthorized"
NotFound == "Project not found"
TryAgain == "Something went wrong. Please try again."

\* where: { id: projectId } finds a row
OwnsWhoeverAsks(user, projectId) == projects[projectId] # NoOwner
\* db.project.findUnique({ where: { id: projectId, userId: user.id } }) finds a row
Owns(user, projectId) == projects[projectId] # NoOwner /\ projects[projectId] = user

\* the runs that the specification at hand follows, and the first of them
\* that no event has started
Slots == DOMAIN pc
FreeRun(r) == pc[r] = "none" /\ \A q \in Slots : q < r => pc[q] # "none"

\* has({ plan: "pro" })
hasProAccess(user) == user \in ProUsers
\* points: hasProAccess ? PRO_POINTS : FREE_POINTS
Limit(user) == IF hasProAccess(user) THEN PRO_POINTS ELSE FREE_POINTS

\* the limiter lets a user at the limit consume
CanConsumeAtLimit(user) == points[user] <= Limit(user)
\* usageTracker.consume(userId, GENERATION_COST) does not reject
CanConsume(user) == points[user] + GENERATION_COST <= Limit(user)

\* consumeCredits: what it throws; signedIn says that auth() has a userId
consumeCredits(user, signedIn) ==
    IF ~signedIn THEN Unauthorized
    ELSE IF ~CanConsume(user) THEN RateLimit
    ELSE NoError

\* the catch around consumeCredits: what the action throws on
Rethrown(error) ==
    IF error = Unauthorized THEN TryAgain ELSE error

\* the limiter counts the points of a call it rejects too
Consumed(user, error) ==
    IF error \in {NoError, RateLimit}
    THEN [points EXCEPT ![user] = @ + GENERATION_COST]
    ELSE points

\* the row is created before the credits are consumed
StoresBeforeConsume(error) == error \in {NoError, RateLimit, TryAgain}
\* the action comes to db.message.create or db.project.create
Stores(error) == error = NoError

\* db.message.create / db.project.create returns
Inserts(thrown) == thrown # "create"
\* the event is sent before the insert
SendsBeforeInsert(thrown) == thrown # "send"
\* the action comes to inngest.send, which returns
Sends(thrown) == thrown = "none"

\* the code-agent/run event starts the first run that has none
Sent(r, projectId) ==
    /\ event' = [event EXCEPT ![r] = projectId]
    /\ pc' = [pc EXCEPT ![r] = "get-sandbox-id"]

\* what createMessages throws
createMessagesThrows(user, projectId, signedIn) ==
    IF user = NoUser THEN Unauthorized
    ELSE IF ~Owns(user, projectId) THEN NotFound
    ELSE Rethrown(consumeCredits(user, signedIn))

\* thrown names the call past consumeCredits that throws: db.message.create
\* ("create"), inngest.send ("send"), or none
createMessages(user, projectId, signedIn, thrown) ==
    LET error == createMessagesThrows(user, projectId, signedIn)
        stored == Stores(error) /\ Inserts(thrown)
        sent == error = NoError /\ Sends(thrown)
    IN  /\ thrown \in {"create", "send", "none"}
        /\ error # NoError => thrown = "none"
        /\ sent => \E r \in Slots : FreeRun(r)
        /\ error = RateLimit => points[user] < Limit(user) + MaxRejected
        /\ points' = Consumed(user, error)
        /\ messages' = IF stored
                       THEN Create(messages, projectId, "USER", "RESULT",
                                   PromptText, NoFragment, 0)
                       ELSE messages
        /\ IF sent
           THEN Sent(CHOOSE r \in Slots : FreeRun(r), projectId)
           ELSE UNCHANGED <<event, pc>>
        /\ UNCHANGED <<projects, sandboxes, disk, memo, net, synth, attempts>>

\* what createProject throws
createProjectThrows(user, signedIn) ==
    IF user = NoUser THEN Unauthorized
    ELSE Rethrown(consumeCredits(user, signedIn))

\* the project gets an id that no project has; thrown names the call past
\* consumeCredits that throws: db.project.create with its nested message
\* ("create"), inngest.send ("send"), or none
createProject(user, signedIn, thrown) ==
    LET error == createProjectThrows(user, signedIn)
        free == {id \in NewProjects : projects[id] = NoOwner}
        newProject == CHOOSE id \in free : TRUE
        stored == Stores(error) /\ Inserts(thrown)
        sent == error = NoError /\ Sends(thrown)
    IN  /\ thrown \in {"create", "send", "none"}
        /\ error # NoError => thrown = "none"
        /\ stored => free # {}
        /\ sent => \E r \in Slots : FreeRun(r)
        /\ error = RateLimit => points[user] < Limit(user) + MaxRejected
        /\ points' = Consumed(user, error)
        /\ projects' = IF stored
                       THEN [projects EXCEPT ![newProject] = user]
                       ELSE projects
        /\ messages' = IF stored
                       THEN Create(messages, newProject, "USER", "RESULT",
                                   PromptText, NoFragment, 0)
                       ELSE messages
        /\ IF sent
           THEN Sent(CHOOSE r \in Slots : FreeRun(r), newProject)
           ELSE UNCHANGED <<event, pc>>
        /\ UNCHANGED <<sandboxes, disk, memo, net, synth, attempts>>

\* what getProjectById throws or returns
getProjectByIdReturns(user, projectId) ==
    IF user = NoUser THEN [error |-> Unauthorized]
    ELSE IF ~Owns(user, projectId) THEN [error |-> NotFound]
    ELSE [data |-> [id |-> projectId, userId |-> projects[projectId]]]

getProjectById(user, projectId) == UNCHANGED vars

\* what getMessages throws or returns; no action changes a message row, so
\* the updatedAt order is the createdAt order
getMessagesReturns(user, projectId) ==
    IF user = NoUser THEN [error |-> Unauthorized]
    ELSE IF ~Owns(user, projectId)
         THEN [error |-> "Project not found or unauthorized"]
    ELSE [data |-> SelectSeq(messages, LAMBDA m : m.projectId = projectId)]

getMessages(user, projectId) == UNCHANGED vars

\* what deleteProject throws; restricted says that the Message relation
\* does not cascade, so that a project with messages cannot be deleted
deleteProjectThrows(user, projectId, restricted) ==
    IF user = NoUser THEN Unauthorized
    ELSE IF ~Owns(user, projectId) THEN NotFound
    ELSE IF restricted /\ \E i \in 1..Len(messages) :
                              messages[i].projectId = projectId
         THEN "Foreign key constraint"
    ELSE NoError

deleteProject(user, projectId, restricted) ==
    LET error == deleteProjectThrows(user, projectId, restricted)
    IN  /\ projects' = IF error = NoError
                       THEN [projects EXCEPT ![projectId] = NoOwner]
                       ELSE projects
        /\ messages' = IF error = NoError
                       THEN SelectSeq(messages, LAMBDA m : m.projectId # projectId)
                       ELSE messages
        /\ UNCHANGED <<sandboxes, disk, pc, event, memo, net, synth,
                       attempts, points>>

\* db.fragment.findUnique({ where: { id } }): the fragment of the message
\* with this id, which it belongs to one to one
FragmentRows(fragmentId) ==
    {i \in 1..Len(messages) :
        messages[i].id = fragmentId /\ messages[i].fragments # NoFragment}

\* what restoreFragment throws before its try block
restoreFragmentThrows(user, fragmentId) ==
    IF user = NoUser THEN Unauthorized
    ELSE IF FragmentRows(fragmentId) = {} THEN "Fragment not found"
    ELSE IF \E i \in FragmentRows(fragmentId) :
                projects[messages[i].projectId] # user
         THEN Unauthorized
    ELSE NoError

\* the update writes the files of the new sandbox too
UpdatedWithFiles(fragment, sandboxUrl) ==
    [fragment EXCEPT !.sandboxUrl = sandboxUrl, !.files = EmptyFiles]

\* db.fragment.update({ where: { id }, data: { sandboxUrl } })
Updated(fragment, sandboxUrl) == [fragment EXCEPT !.sandboxUrl = sandboxUrl]

\* the update is made although a write has thrown
ReachesUpdateDespiteWrite(thrown) == thrown # "create"
\* the try block comes to db.fragment.update
ReachesUpdate(thrown) == thrown = "none"

\* thrown names the call of the try block that throws: Sandbox.create, the
\* first sandbox.files.write, or none
restoreFragment(user, fragmentId, thrown) ==
    LET error == restoreFragmentThrows(user, fragmentId)
        created == error = NoError /\ thrown # "create"
        updated == error = NoError /\ ReachesUpdate(thrown)
        row == CHOOSE i \in FragmentRows(fragmentId) : TRUE
    IN  /\ thrown \in {"create", "write", "none"}
        /\ created => Len(sandboxes) < MaxSandboxes
        /\ sandboxes' = IF created THEN Append(sandboxes, 0) ELSE sandboxes
        /\ disk' = IF updated THEN Append(disk, messages[row].fragments.files)
                   ELSE IF created THEN Append(disk, EmptyFiles)
                   ELSE disk
        /\ messages' = IF updated
                       THEN [messages EXCEPT ![row].fragments =
                                 Updated(messages[row].fragments,
                                         Url(Len(sandboxes) + 1))]
                       ELSE messages
        /\ UNCHANGED <<projects, pc, event, memo, net, synth, attempts, points>>

(***************************************************************************)
(* step.run: a step whose result is recorded is not run again; the         *)
(* invocation takes the recorded result and goes on.                       *)
(***************************************************************************)
Active == {"get-sandbox-id", "get-previous-messages", "network", "title",
           "response", "get-sandbox-url", "save-result", "return"}

\* save-result is written right after get-previous-messages
AfterSavesEarly(step) ==
    CASE step = "get-sandbox-id" -> "get-previous-messages"
      [] step = "get-previous-messages" -> "get-sandbox-url"
      [] step = "network" -> "title"
      [] step = "title" -> "response"
      [] step = "response" -> "get-sandbox-url"
      [] step = "get-sandbox-url" -> "save-result"
      [] step = "save-result" -> "return"
      [] step = "return" -> "completed"

\* the statement that follows a step in the function's body
After(step) ==
    CASE step = "get-sandbox-id" -> "get-previous-messages"
      [] step = "get-previous-messages" -> "network"
      [] step = "network" -> "title"
      [] step = "title" -> "response"
      [] step = "response" -> "get-sandbox-url"
      [] step = "get-sandbox-url" -> "save-result"
      [] step = "save-result" -> "return"
      [] step = "return" -> "completed"

MemoizedExceptSandboxId(r, step) ==
    CASE step = "get-previous-messages" -> memo[r].ctx # NoCtx
      [] step = "network" -> net[r].done
      [] step = "title" -> synth[r].title # NoOutput
      [] step = "response" -> synth[r].response # NoOutput
      [] step = "get-sandbox-url" -> memo[r].sandboxUrl # NoUrl
      [] step = "save-result" -> memo[r].saved
      [] OTHER -> FALSE

MemoizedExceptSaveResult(r, step) ==
    CASE step = "get-sandbox-id" -> memo[r].sandboxId # 0
      [] step = "get-previous-messages" -> memo[r].ctx # NoCtx
      [] step = "network" -> net[r].done
      [] step = "title" -> synth[r].title # NoOutput
      [] step = "response" -> synth[r].response # NoOutput
      [] step = "get-sandbox-url" -> memo[r].sandboxUrl # NoUrl
      [] OTHER -> FALSE

Memoized(r, step) ==
    CASE step = "get-sandbox-id" -> memo[r].sandboxId # 0
      [] step = "get-previous-messages" -> memo[r].ctx # NoCtx
      [] step = "network" -> net[r].done
      [] step = "title" -> synth[r].title # NoOutput
      [] step = "response" -> synth[r].response # NoOutput
      [] step = "get-sandbox-url" -> memo[r].sandboxUrl # NoUrl
      [] step = "save-result" -> memo[r].saved
      [] OTHER -> FALSE

\* a recorded step is passed over
Replay(r) ==
    /\ pc[r] \in Active
    /\ Memoized(r, pc[r])
    /\ pc' = [pc EXCEPT ![r] = After(pc[r])]
    /\ UNCHANGED <<projects, messages, sandboxes, disk, event, memo,
                   net, synth, attempts, points>>

\* the invocation dies and the framework invokes the function again, from
\* its first line, with the recorded results and nothing of its memory
Crash(r) ==
    /\ pc[r] \in Active
    /\ pc[r] # "get-sandbox-id"
    /\ pc' = [pc EXCEPT ![r] = "get-sandbox-id"]
    /\ net' = [net EXCEPT ![r].started = FALSE]
    /\ UNCHANGED <<projects, messages, sandboxes, disk, event,
                   memo, synth, attempts, points>>

\* the steps whose callback lets an exception out
Throwing == {"get-sandbox-id", "get-previous-messages", "get-sandbox-url",
             "save-result"}

\* the callback throws: the step is tried again in a new invocation
StepRetry(r) ==
    /\ pc[r] \in Throwing
    /\ ~Memoized(r, pc[r])
    /\ attempts[r] < MaxRetries
    /\ attempts' = [attempts EXCEPT ![r] = attempts[r] + 1]
    /\ pc' = [pc EXCEPT ![r] = "get-sandbox-id"]
    /\ net' = [net EXCEPT ![r].started = FALSE]
    /\ UNCHANGED <<projects, messages, sandboxes, disk, event,
                   memo, synth, points>>

\* the callback throws and no attempt is left: the run fails
StepExhausted(r) ==
    /\ pc[r] \in Throwing
    /\ ~Memoized(r, pc[r])
    /\ attempts[r] = MaxRetries
    /\ pc' = [pc EXCEPT ![r] = "failed"]
    /\ UNCHANGED <<projects, messages, sandboxes, disk, event, memo,
                   net, synth, attempts, points>>

(***************************************************************************)
(* The steps of codeAgentFunction.                                         *)
(***************************************************************************)
\* Sandbox.create: the new sandbox's id
GetSandboxId(r) ==
    /\ pc[r] = "get-sandbox-id"
    /\ ~Memoized(r, "get-sandbox-id")
    /\ sandboxes' = Append(sandboxes, r)
    /\ disk' = Append(disk, EmptyFiles)
    /\ memo' = [memo EXCEPT ![r].sandboxId = Len(sandboxes) + 1]
    /\ attempts' = [attempts EXCEPT ![r] = 0]
    /\ pc' = [pc EXCEPT ![r] = After("get-sandbox-id")]
    /\ UNCHANGED <<projects, messages, event, net, synth, points>>

GetPreviousMessages(r) ==
    /\ pc[r] = "get-previous-messages"
    /\ ~Memoized(r, "get-previous-messages")
    /\ memo' = [memo EXCEPT ![r].ctx = LoadContext(messages, event[r])]
    /\ attempts' = [attempts EXCEPT ![r] = 0]
    /\ pc' = [pc EXCEPT ![r] = After("get-previous-messages")]
    /\ UNCHANGED <<projects, messages, sandboxes, disk, event,
                   net, synth, points>>


(***************************************************************************)
(* The model's output and the onResponse hook.                             *)
(***************************************************************************)
Undefined == [kind |-> "undefined"]
Str(text) == [kind |-> "string", val |-> text]
Arr(parts) == [kind |-> "array", val |-> parts]
NoCall == [name |-> "-"]

TextMessage(content) ==
    [role |-> "assistant", type |-> "text", content |-> content, tool |-> NoCall]
ToolCallMessage(call) ==
    [role |-> "assistant", type |-> "tool_call", content |-> Undefined, tool |-> call]

\* the parts of an array content: strings, or objects with a text field
StrPart(text) == [kind |-> "string", val |-> text]
ObjPart(text) == [kind |-> "object", text |-> text]

\* content.map((c) => c.text).join(""): a string part has no text field
RECURSIVE JoinText(_)
JoinText(parts) ==
    IF parts = <<>> THEN <<>>
    ELSE (IF Head(parts).kind = "object" THEN Head(parts).text ELSE <<>>)
         \o JoinText(Tail(parts))

\* a value is truthy unless it is undefined or the empty string
Truthy(content) ==
    /\ content.kind # "undefined"
    /\ content.kind = "string" => content.val # <<>>

\* findLastIndex(message.role === "assistant"), 0 when there is none
FindLastAssistant(output) ==
    LET hits == {i \in 1..Len(output) : output[i].role = "assistant"}
    IN  IF hits = {} THEN 0 ELSE CHOOSE i \in hits : \A j \in hits : j <= i

lastAssistantTextMessageContent(output) ==
    LET i == FindLastAssistant(output)
    IN  IF i = 0 THEN Undefined
        ELSE IF ~Truthy(output[i].content) THEN Undefined
        ELSE IF output[i].content.kind = "string" THEN output[i].content
        ELSE Str(JoinText(output[i].content.val))

\* lifecycle.onResponse: the summary after the hook has seen the output
onResponse(summary, output) ==
    LET text == lastAssistantTextMessageContent(output)
    IN  IF Truthy(text) /\ Includes(text.val, Marker) THEN text.val ELSE summary

\* the tool calls the model may issue; the files parameter of readFiles, a
\* list of paths, is the field paths
WriteLists ==
    {<<[path |-> p, content |-> c]>> : p \in Paths, c \in Contents}
    \cup {<<[path |-> "a", content |-> c], [path |-> "b", content |-> c]>> :
            c \in Contents}
ToolCalls ==
    {[name |-> "terminal"], [name |-> "readFiles", paths |-> <<"b", "a">>]}
    \cup {[name |-> "createOrUpdateFiles", files |-> w] : w \in WriteLists}

TextOutputs ==
    {<<>>, <<TextMessage(Str(PlainText))>>, <<TextMessage(Str(MarkerText))>>,
     <<TextMessage(Arr(<<ObjPart(<<Marker>>), ObjPart(<<"done">>)>>))>>}
ToolOutputs ==
    {<<ToolCallMessage(c)>> : c \in ToolCalls}
    \cup {<<TextMessage(Str(t)), ToolCallMessage(c)>> :
            t \in {PlainText, MarkerText}, c \in ToolCalls}
    \cup {<<ToolCallMessage(c), TextMessage(Str(MarkerText))>> : c \in ToolCalls}

\* the calls of the output's tool_call messages, in order
ToolCallsOf(output) ==
    LET calls == SelectSeq(output, LAMBDA m : m.type = "tool_call")
    IN  [i \in 1..Len(calls) |-> calls[i].tool]

(***************************************************************************)
(* The agent network: createState, the router, the turns and the tools.    *)
(***************************************************************************)
\* The record holds what the recorded steps of network.run determine:
\* started says that the current invocation has built the network's state
\* in its memory; calls are the tool calls of the last turn that have no
\* recorded step, ran those that have one, result what the last of them
\* recorded, read the contents that the last readFiles call of the turn
\* returned, and execs the executions of the turn's calls in the sandbox.
\* emitted and wrote record the run's past: whether some output held the
\* marker in a text message, and whether a createOrUpdateFiles call succeeded
NoResult == "-"
NoNet ==
    [started |-> FALSE, done |-> FALSE, iter |-> 0, summary |-> EmptyText,
     files |-> EmptyFiles, calls |-> <<>>, ran |-> <<>>, result |-> NoResult,
     execs |-> 0, emitted |-> FALSE, wrote |-> FALSE, read |-> <<>>]

\* some text message of the output holds the marker
EmitsMarker(output) ==
    \E i \in 1..Len(output) :
        /\ output[i].type = "text"
        /\ \/ output[i].content.kind = "string"
              /\ Includes(output[i].content.val, Marker)
           \/ output[i].content.kind = "array"
              /\ Includes(JoinText(output[i].content.val), Marker)

\* router: the agent to run next, "-" to stop
router(state) == IF state.summary # EmptyText THEN "-" ELSE "code-agent"

InLoop(r) == pc[r] = "network" /\ net[r].started /\ ~net[r].done

\* the network goes on with another turn
ContinuesOffByOne(state) == router(state) = "code-agent" /\ state.iter <= maxIter
Continues(state) == router(state) = "code-agent" /\ state.iter < maxIter

\* the tool steps of the turn are run anew
ResumeRerunsTools(r) ==
    [net[r] EXCEPT !.started = TRUE,
                   !.files = IF net[r].wrote THEN @ ELSE memo[r].ctx.latestFiles,
                   !.calls = net[r].ran \o @,
                   !.ran = <<>>]

\* the state network.run reaches before its first step without a record:
\* createState's files, replaced by the updatedFiles of each recorded
\* createOrUpdateFiles step in turn, and the recorded outputs passed through
\* the hook and the router again
Resume(r) ==
    [net[r] EXCEPT !.started = TRUE,
                   !.files = IF net[r].wrote THEN @ ELSE memo[r].ctx.latestFiles]

\* createState({ summary: "", files: latestFiles }) and network.run
StartNetwork(r) ==
    /\ pc[r] = "network"
    /\ ~net[r].started
    /\ ~net[r].done
    /\ net' = [net EXCEPT ![r] = Resume(r)]
    /\ UNCHANGED <<projects, messages, sandboxes, disk, pc, event,
                   memo, synth, attempts, points>>

\* one inference of the code agent, with its onResponse hook
AgentTurn(r, output) ==
    /\ InLoop(r)
    /\ net[r].calls = <<>>
    /\ Continues(net[r])
    /\ net' = [net EXCEPT ![r].iter = @ + 1,
                          ![r].summary = onResponse(@, output),
                          ![r].calls = ToolCallsOf(output),
                          ![r].ran = <<>>,
                          ![r].result = NoResult,
                          ![r].execs = 0,
                          ![r].read = <<>>,
                          ![r].emitted = @ \/ EmitsMarker(output)]
    /\ UNCHANGED <<projects, messages, sandboxes, disk, pc, event,
                   memo, synth, attempts, points>>

PendingCall(r, name) ==
    /\ InLoop(r)
    /\ net[r].calls # <<>>
    /\ Head(net[r].calls).name = name

\* a tool lets the exception of a sandbox operation out
Thrown == "thrown"
ToolResultUncaught(name, ok) ==
    IF ~ok THEN Thrown
    ELSE CASE name = "terminal" -> "stdout"
           [] name = "createOrUpdateFiles" -> "updatedFiles"
           [] name = "readFiles" -> "contents"

\* what the step of a tool records: the value of its try block, or the
\* string of its catch block when connect or an operation has thrown
ToolResult(name, ok) ==
    CASE name = "terminal" -> IF ok THEN "stdout" ELSE "Command failed"
      [] name = "createOrUpdateFiles" -> IF ok THEN "updatedFiles" ELSE "Error"
      [] name = "readFiles" -> IF ok THEN "contents" ELSE "Error"

ToolFailures == {"Command failed", "Error"}

\* the step of the head call is recorded with this result
Recorded(state, result) ==
    [state EXCEPT !.calls = Tail(@),
                  !.ran = Append(@, Head(state.calls)),
                  !.result = result,
                  !.execs = @ + 1]

\* the step has thrown: the run fails
Fails(r, result) ==
    IF result = Thrown THEN [pc EXCEPT ![r] = "failed"] ELSE pc

\* the terminal tool: its result, stdout or "Command failed: ...", goes to
\* the model; the state is not touched, and what the command does to the
\* sandbox is not followed
terminal(r, ok) ==
    /\ PendingCall(r, "terminal")
    /\ net' = [net EXCEPT ![r] = Recorded(@, ToolResult("terminal", ok))]
    /\ pc' = Fails(r, ToolResult("terminal", ok))
    /\ UNCHANGED <<projects, messages, sandboxes, disk, event,
                   memo, synth, attempts, points>>

\* updatedFiles after the writes of the whole list
RECURSIVE WriteFiles(_, _)
WriteFiles(files, list) ==
    IF list = <<>> THEN files
    ELSE WriteFiles([files EXCEPT ![Head(list).path] = Head(list).content],
                    Tail(list))

\* the entries written before the k-th write throws; all of them when k is
\* past the list
Written(list, k) == SubSeq(list, 1, Min(k - 1, Len(list)))

\* the writes made to the map in place stay in state.data.files
FilesAfterInPlace(files, list, k) == WriteFiles(files, Written(list, k))

\* updatedFiles starts from an empty map
FilesAfterFromEmpty(files, list, k) ==
    IF k > Len(list) THEN WriteFiles(EmptyFiles, list) ELSE files

\* state.data.files after the handler, in the invocations that follow the
\* step: the recorded updatedFiles when the step recorded an object, and the
\* files of before when it recorded the string "Error..." (the map that the
\* callback wrote to in place was in the memory of the invocation that ran
\* the step, which ended with it)
FilesAfter(files, list, k) ==
    IF k > Len(list) THEN WriteFiles(files, list) ELSE files

\* the writes of the pending call that may throw, and one past them
ThrowPoints(r) ==
    IF PendingCall(r, "createOrUpdateFiles")
    THEN 1..(Len(Head(net[r].calls).files) + 1)
    ELSE {}

\* every tool connects to the newest sandbox
ConnectedToNewest(r) == Len(sandboxes)
\* Sandbox.connect(sandboxId): the sandbox the tools of run r work in
Connected(r) == memo[r].sandboxId

\* the createOrUpdateFiles tool, whose k-th write throws (k = 1 also stands
\* for a connect that throws, k past the list for no exception)
createOrUpdateFiles(r, k) ==
    /\ PendingCall(r, "createOrUpdateFiles")
    /\ k \in ThrowPoints(r)
    /\ LET list == Head(net[r].calls).files
           ok == k > Len(list)
       IN  /\ disk' = [disk EXCEPT ![Connected(r)] =
                                         WriteFiles(@, Written(list, k))]
           /\ net' = [net EXCEPT
                        ![r] = [Recorded(@, ToolResult("createOrUpdateFiles", ok))
                                  EXCEPT !.files = FilesAfter(@, list, k),
                                         !.wrote = @ \/ ok]]
           /\ pc' = Fails(r, ToolResult("createOrUpdateFiles", ok))
    /\ UNCHANGED <<projects, messages, sandboxes, event, memo,
                   synth, attempts, points>>

\* contents after the reads of list[1..n] from the files of a sandbox
ReadContents(files, list, n) ==
    [i \in 1..n |-> [path |-> list[i], content |-> files[list[i]]]]

\* the contents read before the throw are returned
ReadKeepsPartial(files, list, k) == ReadContents(files, list, Min(k - 1, Len(list)))

\* the contents that the step returns as JSON when its k-th read throws (k
\* past the list: none throws); the catch block returns no contents
Read(files, list, k) ==
    IF k > Len(list) THEN ReadContents(files, list, Len(list)) ELSE <<>>

\* the reads of the pending call that may throw, and one past them; the read
\* of a path that the sandbox does not hold throws
ReadThrowPoints(r) ==
    IF PendingCall(r, "readFiles")
    THEN {k \in 1..(Len(Head(net[r].calls).paths) + 1) :
            \A i \in 1..(k - 1) :
                disk[Connected(r)][Head(net[r].calls).paths[i]] # NoFile}
    ELSE {}

\* the readFiles tool, whose k-th read throws (k = 1 also stands for a
\* connect that throws): the JSON of the contents, or "Error...", goes to
\* the model
readFiles(r, k) ==
    /\ PendingCall(r, "readFiles")
    /\ k \in ReadThrowPoints(r)
    /\ LET list == Head(net[r].calls).paths
           ok == k > Len(list)
       IN  /\ net' = [net EXCEPT
                        ![r] = [Recorded(@, ToolResult("readFiles", ok))
                                  EXCEPT !.read = Read(disk[Connected(r)], list, k)]]
           /\ pc' = Fails(r, ToolResult("readFiles", ok))
    /\ UNCHANGED <<projects, messages, sandboxes, disk, event,
                   memo, synth, attempts, points>>

\* network.run returns: of the network only result.state.data is used below
NetworkReturn(r) ==
    /\ InLoop(r)
    /\ net[r].calls = <<>>
    /\ ~Continues(net[r])
    /\ net' = [net EXCEPT ![r].done = TRUE, ![r].iter = 0, ![r].ran = <<>>,
                          ![r].result = NoResult, ![r].execs = 0,
                          ![r].read = <<>>]
    /\ pc' = [pc EXCEPT ![r] = After("network")]
    /\ UNCHANGED <<projects, messages, sandboxes, disk, event,
                   memo, synth, attempts, points>>


(***************************************************************************)
(* The title and the response.                                             *)
(***************************************************************************)
\* the first message of a generator's output
GeneratorOutputs ==
    {[type |-> "text", content |-> Str(<<"Hello">>)],
     [type |-> "text", content |-> Arr(<<StrPart(<<"He">>), StrPart(<<"llo">>)>>)],
     [type |-> "text", content |-> Arr(<<ObjPart(<<"He">>), ObjPart(<<"llo">>)>>)],
     [type |-> "image", content |-> Undefined]}

\* content.map((c) => c).join(""): an object part joins as "[object Object]"
RECURSIVE JoinParts(_)
JoinParts(parts) ==
    IF parts = <<>> THEN <<>>
    ELSE (IF Head(parts).kind = "string" THEN Head(parts).val
          ELSE <<"[object Object]">>)
         \o JoinParts(Tail(parts))

\* generateFragmentTitle and generateResponse, which differ by the fallback
ExtractText(first, fallback) ==
    IF first.type # "text" THEN fallback
    ELSE IF first.content.kind = "array" THEN JoinParts(first.content.val)
    ELSE first.content.val

generateFragmentTitle(r) == ExtractText(synth[r].title, <<"Untitled">>)
generateResponse(r) == ExtractText(synth[r].response, <<"Here you go">>)

\* fragmentTitleGenerator.run(summary)
GenerateTitle(r, first) ==
    /\ pc[r] = "title"
    /\ ~Memoized(r, "title")
    /\ synth' = [synth EXCEPT ![r].title = first]
    /\ pc' = [pc EXCEPT ![r] = After("title")]
    /\ UNCHANGED <<projects, messages, sandboxes, disk, event,
                   memo, net, attempts, points>>

\* responseGenerator.run(summary)
GenerateResponse(r, first) ==
    /\ pc[r] = "response"
    /\ ~Memoized(r, "response")
    /\ synth' = [synth EXCEPT ![r].response = first]
    /\ pc' = [pc EXCEPT ![r] = After("response")]
    /\ UNCHANGED <<projects, messages, sandboxes, disk, event,
                   memo, net, attempts, points>>

(***************************************************************************)
(* The outcome, the preview URL and the one write.                         *)
(***************************************************************************)
IsErrorSummaryOnly(state) == state.summary = EmptyText
IsErrorFilesOnly(state) == Keys(state.files) = {}
\* !summary || Object.keys(files || {}).length === 0
isError(state) == state.summary = EmptyText \/ Keys(state.files) = {}

GetSandboxUrl(r) ==
    /\ pc[r] = "get-sandbox-url"
    /\ ~Memoized(r, "get-sandbox-url")
    /\ memo' = [memo EXCEPT ![r].sandboxUrl = Url(memo[r].sandboxId)]
    /\ attempts' = [attempts EXCEPT ![r] = 0]
    /\ pc' = [pc EXCEPT ![r] = After("get-sandbox-url")]
    /\ UNCHANGED <<projects, messages, sandboxes, disk, event,
                   net, synth, points>>

\* the fragment takes the files the run started from
ResultRowOfLoadedFiles(r) ==
    IF isError(net[r])
    THEN [type |-> "ERROR", content |-> ErrorContent, fragments |-> NoFragment]
    ELSE [type |-> "RESULT", content |-> generateResponse(r),
          fragments |-> [sandboxUrl |-> memo[r].sandboxUrl,
                         title |-> generateFragmentTitle(r),
                         files |-> memo[r].ctx.latestFiles]]

\* the fragment takes the files of the store as save-result finds it, under
\* the files of the run
ResultRowReloaded(r) ==
    IF isError(net[r])
    THEN [type |-> "ERROR", content |-> ErrorContent, fragments |-> NoFragment]
    ELSE [type |-> "RESULT", content |-> generateResponse(r),
          fragments |-> [sandboxUrl |-> memo[r].sandboxUrl,
                         title |-> generateFragmentTitle(r),
                         files |-> Spread(LoadContext(messages, event[r]).latestFiles,
                                          net[r].files)]]

\* the message that save-result inserts
ResultRow(r) ==
    IF isError(net[r])
    THEN [type |-> "ERROR", content |-> ErrorContent, fragments |-> NoFragment]
    ELSE [type |-> "RESULT", content |-> generateResponse(r),
          fragments |-> [sandboxUrl |-> memo[r].sandboxUrl,
                         title |-> generateFragmentTitle(r),
                         files |-> net[r].files]]

SaveResult(r) ==
    /\ pc[r] = "save-result"
    /\ ~Memoized(r, "save-result")
    /\ projects[event[r]] # NoOwner
    /\ messages' = Create(messages, event[r], "ASSISTANT", ResultRow(r).type,
                          ResultRow(r).content, ResultRow(r).fragments, r)
    /\ memo' = [memo EXCEPT ![r].saved = TRUE]
    /\ attempts' = [attempts EXCEPT ![r] = 0]
    /\ pc' = [pc EXCEPT ![r] = After("save-result")]
    /\ UNCHANGED <<projects, sandboxes, disk, event, net, synth, points>>

\* return { url, title, files, summary }
Return(r) ==
    /\ pc[r] = "return"
    /\ pc' = [pc EXCEPT ![r] = After("return")]
    /\ UNCHANGED <<projects, messages, sandboxes, disk, event, memo,
                   net, synth, attempts, points>>

(***************************************************************************)
(* The specification of the workflow.                                      *)
(***************************************************************************)
NoMemo == [sandboxId |-> 0, ctx |-> NoCtx, sandboxUrl |-> NoUrl, saved |-> FALSE]
NoSynth == [title |-> NoOutput, response |-> NoOutput]

\* what earlier runs may have stored: the reply to a USER message
Replies ==
    {[type |-> "ERROR", content |-> ErrorContent, fragments |-> NoFragment],
     [type |-> "RESULT", content |-> <<"Hello">>,
      fragments |-> [sandboxUrl |-> Url(0), title |-> <<"Untitled">>,
                     files |-> [EmptyFiles EXCEPT !["a"] = "v1"]]],
     [type |-> "RESULT", content |-> <<"Here you go">>,
      fragments |-> [sandboxUrl |-> Url(0), title |-> <<"Hello">>,
                     files |-> [p \in Paths |-> "v2"]]]}

\* db after one more exchange in the project: createMessages, then the
\* run's save-result
Exchange(db, projectId, reply) ==
    Create(Create(db, projectId, "USER", "RESULT", PromptText, NoFragment, 0),
           projectId, "ASSISTANT", reply.type, reply.content, reply.fragments, 0)

\* the stores of up to n exchanges in project p1
RECURSIVE Histories(_)
Histories(n) ==
    IF n = 0 THEN {<<>>}
    ELSE Histories(n - 1)
         \cup {Exchange(db, "p1", reply) :
                 db \in {h \in Histories(n - 1) : Len(h) = 2 * (n - 1)},
                 reply \in Replies}

\* u1's project p1 and u2's project p2
Owners == [id \in ProjectIds |-> CASE id = "p1" -> "u1"
                                   [] id = "p2" -> "u2"
                                   [] OTHER -> NoOwner]

\* users who have consumed no points, in a store that earlier runs have filled
Init ==
    /\ projects = Owners
    /\ messages \in Histories(MaxHistory)
    /\ points = [u \in Users |-> 0]
    /\ sandboxes = <<>>
    /\ disk = <<>>
    /\ pc = [r \in Runs |-> "none"]
    /\ event = [r \in Runs |-> NoProject]
    /\ memo = [r \in Runs |-> NoMemo]
    /\ net = [r \in Runs |-> NoNet]
    /\ synth = [r \in Runs |-> NoSynth]
    /\ attempts = [r \in Runs |-> 0]

RunStep(r) ==
    \/ Replay(r)
    \/ Crash(r)
    \/ StepRetry(r)
    \/ StepExhausted(r)
    \/ GetSandboxId(r)
    \/ GetPreviousMessages(r)
    \/ StartNetwork(r)
    \/ \E output \in TextOutputs \cup ToolOutputs : AgentTurn(r, output)
    \/ \E ok \in BOOLEAN : terminal(r, ok)
    \/ \E k \in ThrowPoints(r) : createOrUpdateFiles(r, k)
    \/ \E k \in ReadThrowPoints(r) : readFiles(r, k)
    \/ NetworkReturn(r)
    \/ \E first \in GeneratorOutputs : GenerateTitle(r, first)
    \/ \E first \in GeneratorOutputs : GenerateResponse(r, first)
    \/ GetSandboxUrl(r)
    \/ SaveResult(r)
    \/ Return(r)

Next ==
    \/ \E user \in Users, projectId \in Projects :
          createMessages(user, projectId, TRUE, "none")
    \/ \E r \in Runs : RunStep(r)

Spec == Init /\ [][Next]_vars

(***************************************************************************)
(* The workflow when no step throws and no invocation dies: the framework  *)
(* keeps running a started function until it returns.                      *)
(***************************************************************************)
\* the outputs of one message, and a tool call followed by the marker
FairOutputs ==
    TextOutputs
    \cup {<<ToolCallMessage(c)>> : c \in ToolCalls}
    \cup {<<ToolCallMessage(c), TextMessage(Str(MarkerText))>> : c \in ToolCalls}

Progress(r) ==
    \/ GetSandboxId(r)
    \/ GetPreviousMessages(r)
    \/ StartNetwork(r)
    \/ \E output \in FairOutputs : AgentTurn(r, output)
    \/ \E ok \in BOOLEAN : terminal(r, ok)
    \/ \E k \in ThrowPoints(r) : createOrUpdateFiles(r, k)
    \/ \E k \in ReadThrowPoints(r) : readFiles(r, k)
    \/ NetworkReturn(r)
    \/ \E first \in GeneratorOutputs : GenerateTitle(r, first)
    \/ \E first \in GeneratorOutputs : GenerateResponse(r, first)
    \/ GetSandboxUrl(r)
    \/ SaveResult(r)
    \/ Return(r)

FairNext ==
    \/ \E user \in Users, projectId \in Projects :
          createMessages(user, projectId, TRUE, "none")
    \/ \E r \in Runs : Progress(r)

FairSpec == Init /\ [][FairNext]_vars /\ \A r \in Runs : WF_vars(Progress(r))

(***************************************************************************)
(* The specification of the server actions: any caller calls any action on *)
(* any project or fragment, each user has one generation left, and the run *)
(* that a trigger starts goes through its steps with a model that may      *)
(* write one file in its first turn and then ends the task.                *)
(***************************************************************************)
ActionOutputs(r) ==
    {<<TextMessage(Str(MarkerText))>>} \cup
    IF net[r].iter = 0
    THEN {<<ToolCallMessage([name |-> "createOrUpdateFiles",
                             files |-> <<[path |-> "a", content |-> "v2"]>>])>>}
    ELSE {}

\* the ids of the stored messages, and one that no message has
FragmentIds == {0} \cup {messages[i].id : i \in 1..Len(messages)}

ActionsInit ==
    /\ projects = Owners
    /\ messages \in Histories(MaxHistory)
    /\ points = [u \in Users |-> Limit(u) - GENERATION_COST]
    /\ sandboxes = <<>>
    /\ disk = <<>>
    /\ pc = [r \in Runs |-> "none"]
    /\ event = [r \in Runs |-> NoProject]
    /\ memo = [r \in Runs |-> NoMemo]
    /\ net = [r \in Runs |-> NoNet]
    /\ synth = [r \in Runs |-> NoSynth]
    /\ attempts = [r \in Runs |-> 0]

ActionsRunStep(r) ==
    \/ GetSandboxId(r)
    \/ GetPreviousMessages(r)
    \/ StartNetwork(r)
    \/ \E output \in ActionOutputs(r) : AgentTurn(r, output)
    \/ \E k \in ThrowPoints(r) : createOrUpdateFiles(r, k)
    \/ NetworkReturn(r)
    \/ GenerateTitle(r, [type |-> "text", content |-> Str(<<"Hello">>)])
    \/ GenerateResponse(r, [type |-> "image", content |-> Undefined])
    \/ GetSandboxUrl(r)
    \/ SaveResult(r)
    \/ Return(r)

ActionsNext ==
    \/ \E user \in Callers, projectId \in ProjectIds, signedIn \in BOOLEAN :
          createMessages(user, projectId, signedIn, "none")
    \/ \E user \in Callers, signedIn \in BOOLEAN :
          createProject(user, signedIn, "none")
    \/ \E user \in Callers, projectId \in ProjectIds :
          getProjectById(user, projectId)
    \/ \E user \in Callers, projectId \in ProjectIds :
          getMessages(user, projectId)
    \/ \E user \in Callers, projectId \in ProjectIds, restricted \in BOOLEAN :
          deleteProject(user, projectId, restricted)
    \/ \E user \in Callers, fragmentId \in FragmentIds,
          thrown \in {"create", "write", "none"} :
          restoreFragment(user, fragmentId, thrown)
    \/ \E r \in Runs : ActionsRunStep(r)

ActionsSpec == ActionsInit /\ [][ActionsNext]_vars

(***************************************************************************)
(* The specification of two runs under way at once: each user sends        *)
(* messages to their project, two events can be in flight, and each run    *)
(* goes through its steps with a model that may write one file in its      *)
(* first turn and then ends the task.                                      *)
(***************************************************************************)
RunPair == {1, 2}

ConcurrentOutputs(r) ==
    {<<TextMessage(Str(MarkerText))>>} \cup
    IF net[r].iter = 0
    THEN {<<ToolCallMessage([name |-> "createOrUpdateFiles",
                             files |-> <<[path |-> p, content |-> "v2"]>>])>> :
            p \in Paths}
    ELSE {}

ConcurrentInit ==
    /\ projects = Owners
    /\ messages \in Histories(MaxHistory)
    /\ points = [u \in Users |-> 0]
    /\ sandboxes = <<>>
    /\ disk = <<>>
    /\ pc = [r \in RunPair |-> "none"]
    /\ event = [r \in RunPair |-> NoProject]
    /\ memo = [r \in RunPair |-> NoMemo]
    /\ net = [r \in RunPair |-> NoNet]
    /\ synth = [r \in RunPair |-> NoSynth]
    /\ attempts = [r \in RunPair |-> 0]

ConcurrentRunStep(r) ==
    \/ GetSandboxId(r)
    \/ GetPreviousMessages(r)
    \/ StartNetwork(r)
    \/ \E output \in ConcurrentOutputs(r) : AgentTurn(r, output)
    \/ \E k \in ThrowPoints(r) : createOrUpdateFiles(r, k)
    \/ NetworkReturn(r)
    \/ GenerateTitle(r, [type |-> "text", content |-> Str(<<"Hello">>)])
    \/ GenerateResponse(r, [type |-> "image", content |-> Undefined])
    \/ GetSandboxUrl(r)
    \/ SaveResult(r)
    \/ Return(r)

ConcurrentNext ==
    \/ \E user \in Users, projectId \in Projects :
          createMessages(user, projectId, TRUE, "none")
    \/ \E r \in RunPair : ConcurrentRunStep(r)

ConcurrentSpec == ConcurrentInit /\ [][ConcurrentNext]_vars

(***************************************************************************)
(* The specification of the triggers: the signed-in users create projects  *)
(* and send messages, any call past consumeCredits may throw, the owner    *)
(* may delete a project, and a started run loads its history.              *)
(***************************************************************************)
\* each user has two generations left
TriggersStart(user) == Limit(user) - GENERATION_COST - GENERATION_COST

TriggersInit ==
    /\ projects = Owners
    /\ messages \in Histories(MaxHistory)
    /\ points = [u \in Users |-> TriggersStart(u)]
    /\ sandboxes = <<>>
    /\ disk = <<>>
    /\ pc = [r \in Runs |-> "none"]
    /\ event = [r \in Runs |-> NoProject]
    /\ memo = [r \in Runs |-> NoMemo]
    /\ net = [r \in Runs |-> NoNet]
    /\ synth = [r \in Runs |-> NoSynth]
    /\ attempts = [r \in Runs |-> 0]

TriggersNext ==
    \/ \E user \in Users, projectId \in ProjectIds,
          thrown \in {"create", "send", "none"} :
          createMessages(user, projectId, TRUE, thrown)
    \/ \E user \in Users, thrown \in {"create", "send", "none"} :
          createProject(user, TRUE, thrown)
    \/ \E user \in Users, projectId \in ProjectIds :
          deleteProject(user, projectId, FALSE)
    \/ \E r \in Runs : GetSandboxId(r)
    \/ \E r \in Runs : GetPreviousMessages(r)

TriggersSpec == TriggersInit /\ [][TriggersNext]_vars

(***************************************************************************)
(* The specification of the context loader on long histories: the store    *)
(* holds HistoryBase messages of project p1 and up to MaxTail more of any  *)
(* project when the user sends the message that starts the run.            *)
(***************************************************************************)
\* n messages of p1: USER messages and RESULT replies in turn
RECURSIVE Filler(_)
Filler(n) ==
    IF n = 0 THEN <<>>
    ELSE IF n % 2 = 1
         THEN Create(Filler(n - 1), "p1", "USER", "RESULT", PromptText,
                     NoFragment, 0)
         ELSE Create(Filler(n - 1), "p1", "ASSISTANT", "RESULT", <<"Hello">>,
                     [sandboxUrl |-> Url(0), title |-> <<"Untitled">>,
                      files |-> [EmptyFiles EXCEPT !["b"] = "v1"]], 0)

\* db with up to n more messages: USER messages and replies of any project
RECURSIVE Extended(_, _)
Extended(db, n) ==
    IF n = 0 THEN {db}
    ELSE LET shorter == Extended(db, n - 1)
             full == {h \in shorter : Len(h) = Len(db) + n - 1}
         IN  shorter
             \cup {Create(h, projectId, "USER", "RESULT", PromptText,
                           NoFragment, 0) :
                     h \in full, projectId \in Projects}
             \cup {Create(h, projectId, "ASSISTANT", reply.type, reply.content,
                           reply.fragments, 0) :
                     h \in full, projectId \in Projects, reply \in Replies}

LoaderInit ==
    /\ messages \in Extended(Filler(HistoryBase), MaxTail)
                    \cup Extended(<<>>, MaxTail)
    /\ projects = Owners
    /\ points = [u \in Users |-> 0]
    /\ sandboxes = <<>>
    /\ disk = <<>>
    /\ pc = [r \in Runs |-> "none"]
    /\ event = [r \in Runs |-> NoProject]
    /\ memo = [r \in Runs |-> NoMemo]
    /\ net = [r \in Runs |-> NoNet]
    /\ synth = [r \in Runs |-> NoSynth]
    /\ attempts = [r \in Runs |-> 0]

LoaderNext ==
    \/ \E user \in Users, projectId \in Projects :
          createMessages(user, projectId, TRUE, "none")
    \/ \E r \in Runs : GetSandboxId(r)
    \/ \E r \in Runs : GetPreviousMessages(r)

LoaderSpec == LoaderInit /\ [][LoaderNext]_vars


(***************************************************************************)
(* Properties of the workflow, checked under Spec.                         *)
(***************************************************************************)
\* the one row a run has written, when it has written exactly one
TheRow(r) == messages[CHOOSE i \in WrittenBy(r) : TRUE]

WroteOne(r) == Cardinality(WrittenBy(r)) = 1

\* C1: a run never has more than one message in the store, and once its
\* save-result step is recorded it has exactly one, whatever crashes and
\* re-invocations follow.
C1_SavedOnce ==
    \A r \in Runs :
        /\ Cardinality(WrittenBy(r)) <= 1
        /\ memo[r].saved <=> WroteOne(r)

\* a re-invocation after the recorded save-result has come to the step again
C1_Witness ==
    \E r \in Runs : memo[r].saved /\ pc[r] = "save-result"

\* C2: the message a run has written is an ASSISTANT message of type ERROR
\* exactly when the final summary is empty or the final file map has no
\* entry, and of type RESULT otherwise; a run that has saved wrote one.
C2_Classification ==
    \A r \in Runs :
        /\ memo[r].saved => WroteOne(r)
        /\ \A i \in WrittenBy(r) :
            /\ messages[i].role = "ASSISTANT"
            /\ messages[i].type \in {"ERROR", "RESULT"}
            /\ messages[i].type = "ERROR"
                  <=> (net[r].summary = <<>>
                       \/ \A p \in Paths : net[r].files[p] = NoFile)

\* an ERROR written for a run that has a summary and no file
C2_Witness ==
    \E r \in Runs :
        /\ WroteOne(r)
        /\ TheRow(r).type = "ERROR"
        /\ net[r].summary # <<>>

\* C3: the code agent is invoked at most maxIter times in a run, and after
\* the maxIter-th invocation and its tool calls the network does not invoke
\* it again and returns.
C3_AtMostMaxIter ==
    \A r \in Runs :
        /\ net[r].iter <= maxIter
        /\ (InLoop(r) /\ net[r].iter = maxIter /\ net[r].calls = <<>>)
              => /\ ~ENABLED (\E output \in TextOutputs \cup ToolOutputs :
                                 AgentTurn(r, output))
                 /\ ENABLED NetworkReturn(r)

\* the tenth turn of a model that has emitted no marker has called a tool
C3_Witness ==
    \E r \in Runs :
        /\ InLoop(r)
        /\ net[r].iter = maxIter
        /\ ~net[r].emitted
        /\ net[r].calls # <<>>

\* the run has written one message: an ERROR with the generic content and
\* no fragment
WroteGenericError(r) ==
    /\ WroteOne(r)
    /\ TheRow(r).type = "ERROR"
    /\ TheRow(r).content = <<"Something went wrong. Please try again">>
    /\ TheRow(r).fragments = NoFragment

\* C4: under FairSpec, a started run whose model never emits the marker
\* completes, having written one message, of type ERROR, with the generic
\* content and no fragment; and a run that has saved while its model had
\* emitted no marker has written that message.
C4_NoMarkerIsError ==
    \A r \in Runs :
        /\ [](memo[r].saved /\ ~net[r].emitted => WroteGenericError(r))
        /\ (event[r] # NoProject)
              ~> (net[r].emitted \/ (pc[r] = "completed" /\ WroteGenericError(r)))

\* a completed run whose model wrote files and emitted no marker
C4_Witness ==
    \E r \in Runs :
        /\ pc[r] = "completed"
        /\ ~net[r].emitted
        /\ net[r].wrote
        /\ WroteOne(r)

\* C5: a run writes a RESULT only if its model emitted the marker and a
\* createOrUpdateFiles call of the run succeeded; a run whose model emitted
\* the marker and wrote no file writes an ERROR without a fragment.
C5_ResultNeedsWrittenFile ==
    \A r \in Runs :
        \A i \in WrittenBy(r) :
            /\ messages[i].type = "RESULT" => net[r].emitted /\ net[r].wrote
            /\ (net[r].emitted /\ ~net[r].wrote)
                  => /\ messages[i].type = "ERROR"
                     /\ messages[i].fragments = NoFragment

\* C6: a RESULT written by a run has a fragment with the network's final
\* files and the URL of the sandbox the run created; an ERROR has none.
C6_FragmentOfResult ==
    \A r \in Runs :
        \A i \in WrittenBy(r) :
            /\ messages[i].type = "RESULT"
                  => /\ messages[i].fragments # NoFragment
                     /\ messages[i].fragments.files = net[r].files
                     /\ messages[i].fragments.sandboxUrl.host \in 1..Len(sandboxes)
                     /\ sandboxes[messages[i].fragments.sandboxUrl.host] = r
            /\ messages[i].type = "ERROR" => messages[i].fragments = NoFragment

\* a RESULT whose files differ from the files the run started from
C6_Witness ==
    \E r \in Runs :
        /\ WroteOne(r)
        /\ TheRow(r).type = "RESULT"
        /\ memo[r].ctx.latestFiles # EmptyFiles
        /\ TheRow(r).fragments.files # memo[r].ctx.latestFiles

\* the texts of the parts of an array content, concatenated in order
RECURSIVE ConcatParts(_)
ConcatParts(parts) ==
    IF parts = <<>> THEN <<>>
    ELSE (IF Head(parts).kind = "object" THEN Head(parts).text ELSE Head(parts).val)
         \o ConcatParts(Tail(parts))

\* the extraction of a title or response from the generator's first message
Extracted(first, fallback) ==
    IF first.type # "text" THEN fallback
    ELSE IF first.content.kind = "string" THEN first.content.val
    ELSE ConcatParts(first.content.val)

\* C16: the title and the response are the fallback literal when the first
\* output message is not of type text, the content when it is a string, and
\* the concatenation of the texts of its parts when it is an array.
C16_Extraction ==
    \A r \in Runs :
        /\ synth[r].title # NoOutput
              => generateFragmentTitle(r) = Extracted(synth[r].title, <<"Untitled">>)
        /\ synth[r].response # NoOutput
              => generateResponse(r) = Extracted(synth[r].response, <<"Here you go">>)

\* the text of a text message: the string, or the texts of the parts
TextOf(m) ==
    IF m.content.kind = "string" THEN m.content.val
    ELSE ConcatParts(m.content.val)

\* the last message of the output that the assistant wrote and that has
\* text content; 0 when there is none
LastAssistantText(output) ==
    LET hits == {i \in 1..Len(output) :
                    /\ output[i].role = "assistant"
                    /\ output[i].type = "text"
                    /\ TextOf(output[i]) # <<>>}
    IN  IF hits = {} THEN 0 ELSE CHOOSE i \in hits : \A j \in hits : j <= i

\* C17: a model turn sets the summary to the text of the last assistant text
\* message of its output when that text holds the marker, and leaves the
\* summary as it was in every other case.
C17_SummaryOfLastText ==
    [][\A r \in Runs :
          \A output \in TextOutputs \cup ToolOutputs :
              AgentTurn(r, output) =>
                  LET i == LastAssistantText(output)
                  IN  net'[r].summary =
                          IF i # 0 /\ Includes(TextOf(output[i]), Marker)
                          THEN TextOf(output[i])
                          ELSE net[r].summary]_vars

\* the last tool step of the turn did not record the value of its try block
ToolFailed(r) ==
    net[r].result \notin {NoResult, "stdout", "updatedFiles", "contents"}

\* C11: under FairSpec, where every sandbox operation of a tool may throw, a
\* tool step whose operation threw has recorded a string and left the run in
\* the agent loop, and the run goes on to record save-result.
C11_ToolFailureIsResult ==
    \A r \in Runs :
        /\ [](ToolFailed(r) => InLoop(r) /\ net[r].result \in ToolFailures)
        /\ ToolFailed(r) ~> memo[r].saved

\* a run that has saved after a write of its only createOrUpdateFiles calls
\* threw: the sandbox holds a file and no call has succeeded
C11_Witness ==
    \E r \in Runs :
        /\ memo[r].saved
        /\ ~net[r].wrote
        /\ disk[memo[r].sandboxId] # EmptyFiles

SandboxesOf(r) == {id \in 1..Len(sandboxes) : sandboxes[id] = r}

\* C14: whatever crashes and re-invocations happen, a run creates at most
\* one sandbox, the recorded id is that sandbox's, no other sandbox has been
\* written to by the run's tools, and the preview URL is that sandbox's.
C14_OneSandbox ==
    \A r \in Runs :
        /\ Cardinality(SandboxesOf(r)) <= 1
        /\ memo[r].sandboxId # 0 => SandboxesOf(r) = {memo[r].sandboxId}
        /\ memo[r].sandboxId = 0 => SandboxesOf(r) = {}
        /\ \A id \in SandboxesOf(r) :
              disk[id] # EmptyFiles => id = memo[r].sandboxId
        /\ memo[r].sandboxUrl # NoUrl
              => memo[r].sandboxUrl = Url(memo[r].sandboxId)

\* a re-invocation stands at get-sandbox-id after the tools have written to
\* the sandbox and its URL has been resolved
C14_Witness ==
    \E r \in Runs :
        /\ pc[r] = "get-sandbox-id"
        /\ memo[r].sandboxUrl # NoUrl
        /\ disk[memo[r].sandboxId] # EmptyFiles

StepOrder ==
    <<"get-sandbox-id", "get-previous-messages", "network", "title", "response",
      "get-sandbox-url", "save-result">>

\* C13: a step of a run is recorded only if every step before it is, an
\* invocation stands at a step only if every step before it is recorded,
\* and save-result is recorded only after the agent loop has returned.
C13_StepOrder ==
    \A r \in Runs :
        /\ \A j \in 1..Len(StepOrder) :
              (Memoized(r, StepOrder[j]) \/ pc[r] = StepOrder[j])
                 => \A i \in 1..(j - 1) : Memoized(r, StepOrder[i])
        /\ net[r].started => memo[r].ctx # NoCtx
        /\ memo[r].saved => net[r].done /\ ~InLoop(r)
        /\ pc[r] \in {"return", "completed"} => memo[r].saved

\* a re-invocation stands at an early step of a run that has saved
C13_Witness ==
    \E r \in Runs : memo[r].saved /\ pc[r] = "get-previous-messages"

\* C10: a run that has ended, completed or failed, has one message in the
\* store.
C10_EveryRunAnswers ==
    \A r \in Runs :
        pc[r] \in {"completed", "failed"} => WroteOne(r)

(***************************************************************************)
(* Properties of the context loader, checked under LoaderSpec, where the   *)
(* store does not change after the load.                                   *)
(***************************************************************************)
Loaded(r) == memo[r].ctx # NoCtx

\* the stored message with this id
Stored(id) == messages[CHOOSE i \in 1..Len(messages) : messages[i].id = id]

\* the positions of the project's messages that are not of type ERROR
NonErrorOf(projectId) ==
    {i \in 1..Len(messages) :
        messages[i].projectId = projectId /\ messages[i].type # "ERROR"}

\* C7: when the project holds more than take messages that are not ERROR,
\* the loaded rows are the take most recent of them, oldest first.
C7_MostRecentLoaded ==
    \A r \in Runs :
        Loaded(r) =>
            LET sel == NonErrorOf(event[r])
                rows == memo[r].ctx.rows
            IN  Cardinality(sel) > take =>
                    /\ Len(rows) = take
                    /\ \A k \in 1..Len(rows) - 1 : rows[k] < rows[k + 1]
                    /\ \A i \in sel :
                          (Cardinality({j \in sel : j > i}) < take)
                             <=> \E k \in 1..Len(rows) : rows[k] = messages[i].id

\* C8: formattedMessages has at most take entries, one per loaded row, and
\* no loaded row is a stored message of type ERROR.
C8_NoErrorAtMostTake ==
    \A r \in Runs :
        Loaded(r) =>
            LET ctx == memo[r].ctx
            IN  /\ Len(ctx.formattedMessages) <= take
                /\ Len(ctx.formattedMessages) = Len(ctx.rows)
                /\ \A k \in 1..Len(ctx.rows) : Stored(ctx.rows[k]).type # "ERROR"

\* take rows loaded from a project that holds an ERROR message
C8_Witness ==
    \E r \in Runs :
        /\ Loaded(r)
        /\ Len(memo[r].ctx.formattedMessages) = take
        /\ \E i \in 1..Len(messages) :
              messages[i].projectId = event[r] /\ messages[i].type = "ERROR"

\* the loaded rows that are ASSISTANT turns with a fragment holding path p
TurnsWith(r, p) ==
    {k \in 1..Len(memo[r].ctx.rows) :
        /\ Stored(memo[r].ctx.rows[k]).role = "ASSISTANT"
        /\ Stored(memo[r].ctx.rows[k]).fragments # NoFragment
        /\ Stored(memo[r].ctx.rows[k]).fragments.files[p] # NoFile}

\* C9: latestFiles maps a path to its content in the last loaded ASSISTANT
\* turn whose fragment holds the path, and holds no path that no such turn
\* holds.
C9_LaterTurnWins ==
    \A r \in Runs :
        Loaded(r) =>
            \A p \in Paths :
                LET turns == TurnsWith(r, p)
                    last == CHOOSE k \in turns : \A j \in turns : j <= k
                IN  memo[r].ctx.latestFiles[p] =
                        IF turns = {} THEN NoFile
                        ELSE Stored(memo[r].ctx.rows[last]).fragments.files[p]

\* two loaded turns hold one path with different contents, and a path of an
\* earlier turn is not in the last one
C9_Witness ==
    \E r \in Runs :
        /\ Loaded(r)
        /\ \E p \in Paths :
              \E j, k \in TurnsWith(r, p) :
                  /\ j < k
                  /\ Stored(memo[r].ctx.rows[j]).fragments.files[p]
                        # Stored(memo[r].ctx.rows[k]).fragments.files[p]
        /\ \E q \in Paths :
              /\ TurnsWith(r, q) # {}
              /\ \E k \in 1..Len(memo[r].ctx.rows) :
                    /\ \A j \in TurnsWith(r, q) : j < k
                    /\ Stored(memo[r].ctx.rows[k]).fragments # NoFragment
                    /\ Stored(memo[r].ctx.rows[k]).fragments.files[q] = NoFile


(***************************************************************************)
(* The server actions                                                      *)
(***************************************************************************)
\* the stored results, by position
Results(rows) == {i \in 1..Len(rows) : rows[i].role = "ASSISTANT"}

\* a step is the owner's restoreFragment of the fragment of row i
RestoredByOwner(i) ==
    \E user \in Users :
        /\ projects[messages[i].projectId] = user
        /\ restoreFragment(user, messages[i].id, "none")

\* C18 as stated: once save-result has written the result of a run, no later
\* operation (a later run, createMessages, restoreFragment) changes the
\* message or its fragment (sandboxUrl, title, files): a stored result that
\* is still stored after a step is the same row.
C18_ResultNeverChanges ==
    [][\A i \in Results(messages) : \A j \in Results(messages') :
          messages'[j].id = messages[i].id => messages'[j] = messages[i]]_vars

\* C18 amended: a stored result that is still stored after a step is the same
\* row, except that restoreFragment called by the owner of its project
\* replaces the sandboxUrl of its fragment; the title and the files of the
\* fragment, and the message itself, never change.
C18_OnlyRestoreChangesUrl ==
    [][\A i \in Results(messages) : \A j \in Results(messages') :
          messages'[j].id = messages[i].id
          => \/ messages'[j] = messages[i]
             \/ /\ messages[i].fragments # NoFragment
                /\ messages'[j] =
                       [messages[i] EXCEPT !.fragments.sandboxUrl =
                                               Url(Len(sandboxes'))]
                /\ RestoredByOwner(i)]_vars

\* the result of a run has been restored: its fragment is served by a sandbox
\* that is not the sandbox of the run
C18_Witness ==
    \E r \in Runs : \E i \in Results(messages) :
        /\ messages[i].by = r
        /\ memo[r].saved
        /\ messages[i].fragments # NoFragment
        /\ messages[i].fragments.sandboxUrl # Url(memo[r].sandboxId)
        /\ messages[i].fragments.files = net[r].files

\* a step consumes one credit of a user who had one left
Consumes(user) ==
    /\ CanConsume(user)
    /\ points' = [points EXCEPT ![user] = points[user] + GENERATION_COST]

\* a step adds a USER message, a project, or the trigger of a run
AddsMessage ==
    /\ Len(messages') = Len(messages) + 1
    /\ messages'[Len(messages')].role = "USER"

AddsProject == \E projectId \in ProjectIds :
    projects[projectId] = NoOwner /\ projects'[projectId] # NoOwner

SendsEvent == \E r \in Runs : pc[r] = "none" /\ pc'[r] # "none"

\* C19: when the consumption of the credit fails (the limit is reached, or
\* the caller of consumeCredits is not authenticated), createMessages and
\* createProject throw, create no message and no project and send no event;
\* a message or a project is created and an event is sent only in a call
\* that has consumed one credit.
C19_CreditBeforeRow ==
    /\ [](\A user \in Users, signedIn \in BOOLEAN :
            consumeCredits(user, signedIn) # NoError
            => /\ createProjectThrows(user, signedIn) # NoError
               /\ \A projectId \in ProjectIds :
                      createMessagesThrows(user, projectId, signedIn) # NoError)
    /\ [][/\ (AddsMessage \/ AddsProject \/ SendsEvent)
             => \E user \in Users : Consumes(user)
          /\ \A user \in Users, signedIn \in BOOLEAN :
                 consumeCredits(user, signedIn) # NoError
                 => /\ createProject(user, signedIn, "none")
                       => UNCHANGED <<projects, messages, pc, event>>
                    /\ \A projectId \in ProjectIds :
                           createMessages(user, projectId, signedIn, "none")
                           => UNCHANGED <<projects, messages, pc, event>>
          /\ (\E user \in Users : ~CanConsume(user) /\ points'[user] # points[user])
             => UNCHANGED <<projects, messages, pc, event>>]_vars

\* a call has been rejected by the limiter after a call that consumed the
\* last credit of the same user and sent its event
C19_Witness ==
    \E user \in Users : \E r \in Runs :
        /\ points[user] > Limit(user)
        /\ event[r] # NoProject
        /\ projects[event[r]] = user
        /\ \E i \in 1..Len(messages) :
               messages[i].role = "USER" /\ messages[i].projectId = event[r]

\* the users who are authenticated and do not own the project
Strangers(projectId) ==
    {user \in Users :
        projects[projectId] # NoOwner /\ projects[projectId] # user}

FragmentsOf(projectId) ==
    {messages[i].id : i \in {k \in 1..Len(messages) :
        messages[k].projectId = projectId /\ messages[k].fragments # NoFragment}}

\* C20: for an authenticated user who does not own the project, getProjectById,
\* getMessages, createMessages, deleteProject and restoreFragment of any
\* fragment of the project fail with an error, return no data of the
\* project, and change nothing: no project, message, fragment, sandbox,
\* event or credit.
C20_StrangersGetNothing ==
    /\ [](\A projectId \in ProjectIds : \A user \in Strangers(projectId) :
            /\ DOMAIN getProjectByIdReturns(user, projectId) = {"error"}
            /\ DOMAIN getMessagesReturns(user, projectId) = {"error"}
            /\ \A signedIn \in BOOLEAN :
                   createMessagesThrows(user, projectId, signedIn) # NoError
            /\ \A restricted \in BOOLEAN :
                   deleteProjectThrows(user, projectId, restricted) # NoError
            /\ \A fragmentId \in FragmentsOf(projectId) :
                   restoreFragmentThrows(user, fragmentId) # NoError)
    /\ [][\A projectId \in ProjectIds : \A user \in Strangers(projectId) :
            /\ getProjectById(user, projectId) => UNCHANGED vars
            /\ getMessages(user, projectId) => UNCHANGED vars
            /\ \A signedIn \in BOOLEAN :
                   createMessages(user, projectId, signedIn, "none")
                   => UNCHANGED vars
            /\ \A restricted \in BOOLEAN :
                   deleteProject(user, projectId, restricted) => UNCHANGED vars
            /\ \A fragmentId \in FragmentsOf(projectId) :
                   \A thrown \in {"create", "write", "none"} :
                       restoreFragment(user, fragmentId, thrown)
                       => UNCHANGED vars]_vars

\* a user who has a credit left faces a project of another user that holds
\* the result and the fragment of a run
C20_Witness ==
    \E projectId \in ProjectIds : \E user \in Strangers(projectId) :
        /\ CanConsume(user)
        /\ \E i \in Results(messages) :
               /\ messages[i].by \in Runs
               /\ messages[i].id \in FragmentsOf(projectId)
        /\ Len(sandboxes) < MaxSandboxes

(***************************************************************************)
(* Two runs at once, checked under ConcurrentSpec.                         *)
(***************************************************************************)
\* C21: in any interleaving of two runs, of one project or of two, the runs
\* hold different sandbox ids, a write to a sandbox is the write of the run
\* that created it, and the preview URLs that the runs resolve differ.
C21_SandboxOfOneRun ==
    /\ [](\A r \in RunPair : \A q \in RunPair \ {r} :
            /\ memo[r].sandboxId # 0 => memo[r].sandboxId # memo[q].sandboxId
            /\ memo[r].sandboxId # 0 => sandboxes[memo[r].sandboxId] = r
            /\ memo[r].sandboxUrl # NoUrl
               => /\ memo[r].sandboxUrl = Url(memo[r].sandboxId)
                  /\ memo[r].sandboxUrl # memo[q].sandboxUrl)
    /\ [][\A id \in 1..Len(disk) :
            disk'[id] # disk[id]
            => \E r \in RunPair :
                   /\ PendingCall(r, "createOrUpdateFiles")
                   /\ sandboxes[id] = r
                   /\ memo[r].sandboxId = id
                   /\ \A q \in RunPair \ {r} : net'[q] = net[q]]_vars

\* both runs are in their loops, and each has written a file to its sandbox
C21_Witness ==
    /\ \A r \in RunPair :
           /\ InLoop(r)
           /\ disk[memo[r].sandboxId] # EmptyFiles
    /\ event[1] = event[2]

\* the row of a run that has saved a fragment
Saved(r) ==
    /\ memo[r].saved
    /\ WroteOne(r)
    /\ TheRow(r).fragments # NoFragment

\* C22: runs of one project are not serialized.  The file map a run starts
\* from is the one that get-previous-messages found, whatever another run
\* saves afterwards: a path that the run has not written is in its fragment
\* as it was in that map; so the state of C22_Witness is reached, in which
\* the second run's starting map and fragment lack a path of the first
\* run's fragment.
C22_NotSerialized ==
    \A r \in RunPair :
        Saved(r)
        => \A p \in Paths :
               disk[memo[r].sandboxId][p] = NoFile
               => TheRow(r).fragments.files[p] = memo[r].ctx.latestFiles[p]

\* two messages sent to one project: the second run has loaded its history
\* before the first run's save-result, and the fragment it has saved after
\* it lacks a path that the first run's fragment holds
C22_Witness ==
    \E p \in Paths :
        /\ event[1] = event[2]
        /\ Saved(1)
        /\ Saved(2)
        /\ TheRow(1).id < TheRow(2).id
        /\ TheRow(1).id \notin {memo[2].ctx.rows[i] : i \in DOMAIN memo[2].ctx.rows}
        /\ TheRow(1).fragments.files[p] # NoFile
        /\ memo[2].ctx.latestFiles[p] = NoFile
        /\ TheRow(2).fragments.files[p] = NoFile

(***************************************************************************)
(* The loop and its tools, checked under Spec.                             *)
(***************************************************************************)
\* a step of run r is a turn of the agent, or the execution of a tool call
TakesTurn(r) == net'[r].iter = net[r].iter + 1
RunsTool(r) == net'[r].execs = net[r].execs + 1

\* C23: after a turn, a non-empty summary halts the loop: the agent is not
\* invoked again in the run and no tool call happens once the summary is
\* set; with an empty summary and fewer than maxIter turns made, the router
\* names the code agent again.
C23_SummaryHalts ==
    /\ [](\A r \in Runs :
            InLoop(r) /\ net[r].calls = <<>>
            => /\ net[r].summary # EmptyText => ~Continues(net[r])
               /\ net[r].summary = EmptyText /\ net[r].iter < maxIter
                  => Continues(net[r]) /\ router(net[r]) = "code-agent")
    /\ [][\A r \in Runs :
            net[r].summary # EmptyText => ~TakesTurn(r) /\ ~RunsTool(r)]_vars

\* the paths that the pending createOrUpdateFiles call of run r names
NamedPaths(r) ==
    IF PendingCall(r, "createOrUpdateFiles")
    THEN {Head(net[r].calls).files[i].path :
            i \in 1..Len(Head(net[r].calls).files)}
    ELSE {}

\* C24: in the loop the paths of state.data.files only grow: the map holds
\* every path that get-previous-messages loaded and every path of every
\* successful createOrUpdateFiles call so far; the content of a path changes
\* only in a createOrUpdateFiles call that names the path, and terminal and
\* readFiles leave the map alone.
C24_FilesOnlyGrow ==
    /\ [](\A r \in Runs :
            net[r].started => Keys(memo[r].ctx.latestFiles) \subseteq Keys(net[r].files))
    /\ [][\A r \in Runs :
            net[r].started /\ net'[r].started
            => /\ Keys(net[r].files) \subseteq Keys(net'[r].files)
               /\ \A p \in Paths :
                      net'[r].files[p] # net[r].files[p] => p \in NamedPaths(r)
               /\ RunsTool(r) /\ net'[r].result = "updatedFiles"
                  => NamedPaths(r) \subseteq Keys(net'[r].files)
               /\ (\/ \E ok \in BOOLEAN : terminal(r, ok)
                   \/ \E k \in ReadThrowPoints(r) : readFiles(r, k))
                  => net'[r].files = net[r].files]_vars

\* the run started from a loaded file, has written another path in a first
\* call and has run terminal after it; its map holds both paths
C24_Witness ==
    \E r \in Runs :
        /\ InLoop(r)
        /\ net[r].wrote
        /\ net[r].result = "stdout"
        /\ Keys(memo[r].ctx.latestFiles) = {"a"}
        /\ disk[memo[r].sandboxId]["b"] # NoFile
        /\ Keys(net[r].files) = {"a", "b"}

\* the last tool call of the turn that has run
LastRan(r) == net[r].ran[Len(net[r].ran)]

\* what the handler of a tool returns to the model, given what its step has
\* returned: terminal and readFiles return it, and the handler of
\* createOrUpdateFiles has no return statement
HandlerReturns(name, result) ==
    IF name = "createOrUpdateFiles" THEN "undefined" ELSE result

\* C25: when a sandbox operation has failed inside a tool, the handler
\* returns an error string to the model: "Command failed: ..." for terminal,
\* "Error..." for createOrUpdateFiles and for readFiles.
C25_FailureIsToolOutput ==
    \A r \in Runs :
        InLoop(r) /\ net[r].ran # <<>> /\ net[r].result \in ToolFailures
        => HandlerReturns(LastRan(r).name, net[r].result)
               = ToolResult(LastRan(r).name, FALSE)

\* C26: when no read throws, readFiles returns the JSON of a list that has
\* one {path, content} entry per requested path, in the order of the request;
\* when the read of one path throws, it returns the one string "Error..."
\* and none of the contents read before; state.data is as before in both
\* cases.
C26_ReadAllOrError ==
    [][\A r \in Runs : \A k \in ReadThrowPoints(r) :
          readFiles(r, k)
          => LET list == Head(net[r].calls).paths
             IN  /\ net'[r].files = net[r].files
                 /\ net'[r].summary = net[r].summary
                 /\ k > Len(list)
                    => /\ net'[r].result = "contents"
                       /\ Len(net'[r].read) = Len(list)
                       /\ \A i \in 1..Len(list) :
                              /\ net'[r].read[i].path = list[i]
                              /\ net'[r].read[i].content
                                     = disk[memo[r].sandboxId][list[i]]
                 /\ k <= Len(list)
                    => /\ net'[r].result = "Error"
                       /\ net'[r].read = <<>>]_vars

\* a readFiles call has returned the contents of the two files it asked
\* for, which differ
C26_Witness ==
    \E r \in Runs :
        /\ InLoop(r)
        /\ net[r].ran # <<>>
        /\ LastRan(r).name = "readFiles"
        /\ net[r].result = "contents"
        /\ Len(net[r].read) = Len(LastRan(r).paths)
        /\ net[r].read[1].content # net[r].read[Len(net[r].read)].content
        /\ net[r].files # EmptyFiles

(***************************************************************************)
(* restoreFragment, checked under ActionsSpec.                             *)
(***************************************************************************)
\* C27: restoreFragment called by the owner.  When nothing throws, a new
\* sandbox exists that holds every file of the fragment, and of the store
\* only the fragment's sandboxUrl has changed, to the URL of that sandbox;
\* when Sandbox.create or a write throws, the action throws and the store,
\* the fragment's sandboxUrl included, is as before.
C27_RestoreChangesUrlOnly ==
    [][\A user \in Users : \A fragmentId \in FragmentIds :
          restoreFragmentThrows(user, fragmentId) = NoError
          => LET row == CHOOSE i \in FragmentRows(fragmentId) : TRUE
                 new == Len(sandboxes) + 1
             IN  /\ restoreFragment(user, fragmentId, "none")
                    => /\ Len(sandboxes') = new
                       /\ disk'[new] = messages[row].fragments.files
                       /\ messages' =
                              [messages EXCEPT ![row].fragments.sandboxUrl = Url(new)]
                       /\ messages'[row].fragments.files
                              = messages[row].fragments.files
                       /\ messages'[row].fragments.title
                              = messages[row].fragments.title
                       /\ projects' = projects
                 /\ \A thrown \in {"create", "write"} :
                        restoreFragment(user, fragmentId, thrown)
                        => messages' = messages /\ projects' = projects]_vars

\* a restore has failed at a write, leaving a sandbox without the files, and
\* a second one has succeeded: its sandbox holds the files of the fragment,
\* whose URL is the URL of that sandbox
C27_Witness ==
    /\ Len(sandboxes) > 1
    /\ sandboxes[Len(sandboxes) - 1] = 0
    /\ sandboxes[Len(sandboxes)] = 0
    /\ disk[Len(sandboxes) - 1] = EmptyFiles
    /\ \E i \in Results(messages) :
           /\ messages[i].fragments # NoFragment
           /\ messages[i].fragments.sandboxUrl = Url(Len(sandboxes))
           /\ messages[i].fragments.files = disk[Len(sandboxes)]

(***************************************************************************)
(* The triggers, checked under TriggersSpec.                               *)
(***************************************************************************)
\* the credits a user has consumed since the initial state in calls that
\* the limiter let through, and the events sent since then
Credits(user) == Min(points[user], Limit(user)) - TriggersStart(user)
Events == Cardinality({r \in Runs : event[r] # NoProject})

\* C28: in any sequence of createProject and createMessages calls, a step
\* that sends an event stores a USER message, a step that stores a USER
\* message consumes a credit within the user's limit (FREE_POINTS for the
\* free tier, PRO_POINTS for pro), so that events, USER messages and credits
\* are counted in this order and the credits never pass the limit; a credit
\* consumed by a call whose insert or whose send throws is not given back.
C28_EventsRowsCredits ==
    /\ [](/\ Events <= Credits("u1") + Credits("u2")
          /\ \A user \in Users : Credits(user) + TriggersStart(user) <= Limit(user))
    /\ [][/\ SendsEvent => AddsMessage
          /\ AddsMessage
             => \E user \in Users :
                    /\ Consumes(user)
                    /\ points'[user] <= Limit(user)
          /\ \A user \in Users : points'[user] >= points[user]
          /\ \A user \in Users, thrown \in {"create", "send"} :
                /\ createProject(user, TRUE, thrown)
                   => points'[user] = points[user] + GENERATION_COST
                /\ \A projectId \in ProjectIds :
                       createMessages(user, projectId, TRUE, thrown)
                       => points'[user] = points[user] + GENERATION_COST]_vars

\* a user has spent the two credits left: one call has stored its message and
\* sent its event, the insert of the other has thrown
C28_Witness ==
    \E user \in Users : \E r \in Runs :
        /\ points[user] = Limit(user)
        /\ event[r] # NoProject
        /\ projects[event[r]] = user
        /\ Cardinality({i \in 1..Len(messages) : messages[i].role = "USER"}) = 1

\* the USER messages of a project, by position
UserRows(projectId) ==
    {i \in 1..Len(messages) :
        messages[i].role = "USER" /\ messages[i].projectId = projectId}

\* C29: createProject and createMessages store the USER message before they
\* send the event: a step that sends an event stores the USER message of the
\* event's project, so get-previous-messages finds a history that is not
\* empty unless the messages of the project have been deleted since (a
\* project of more than take non-ERROR messages has a full history); when
\* inngest.send throws, the USER message stays stored and no run starts.
C29_StoredBeforeSent ==
    [][/\ \A r \in Runs :
             pc[r] = "none" /\ pc'[r] # "none"
             => /\ AddsMessage
                /\ messages'[Len(messages')].projectId = event'[r]
       /\ \A r \in Runs :
             GetPreviousMessages(r)
             => \/ Len(memo'[r].ctx.rows) > 0
                \/ UserRows(event[r]) = {}
       /\ \A user \in Users :
             /\ createProject(user, TRUE, "send")
                => AddsProject /\ AddsMessage /\ UNCHANGED <<pc, event>>
             /\ \A projectId \in ProjectIds :
                    createMessages(user, projectId, TRUE, "send")
                    => AddsMessage /\ UNCHANGED <<pc, event>>]_vars

\* a run has loaded a history that holds its USER message, and a USER
\* message stored after it, whose send has thrown, has no run
C29_Witness ==
    \E r \in Runs :
        /\ memo[r].ctx # NoCtx
        /\ Len(memo[r].ctx.rows) > 0
        /\ \A q \in Runs : event[q] # NoProject
        /\ messages # <<>>
        /\ messages[Len(messages)].role = "USER"
        /\ messages[Len(messages)].projectId # event[r]
        /\ \E i \in UserRows(event[r]) :
               messages[i].id = memo[r].ctx.rows[Len(memo[r].ctx.rows)]

\* C30: every operation keeps the store such that a fragment belongs to a
\* message of role ASSISTANT and type RESULT and has a file map that is not
\* empty, and that no USER message and no ERROR message has a fragment; a
\* message has at most one fragment, and no two stored messages share an id.
C30_FragmentsOfResults ==
    /\ \A i \in 1..Len(messages) :
           /\ messages[i].fragments # NoFragment
              => /\ messages[i].role = "ASSISTANT"
                 /\ messages[i].type = "RESULT"
                 /\ Keys(messages[i].fragments.files) # {}
           /\ messages[i].role = "USER" \/ messages[i].type = "ERROR"
              => messages[i].fragments = NoFragment
    /\ \A i \in 1..Len(messages) : \A j \in 1..Len(messages) :
           messages[i].id = messages[j].id => i = j

\* the store holds a USER message of createProject, the fragment of a run,
\* restored since, and an ERROR message
C30_Witness ==
    /\ \E i \in 1..Len(messages) :
           messages[i].role = "USER" /\ messages[i].projectId \in NewProjects
    /\ \E i \in Results(messages) :
           /\ messages[i].by \in Runs
           /\ messages[i].fragments # NoFragment
           /\ messages[i].fragments.sandboxUrl # Url(memo[messages[i].by].sandboxId)
    /\ \E i \in Results(messages) : messages[i].type = "ERROR"

=============================================================================
